---------------------------- MODULE Spec2Model ----------------------------
(***************************************************************************)
(* A state-machine model of the benchmark harness core of the QPL          *)
(* repository (src/unnamed/part_000): the benchmark registry, the hardware *)
(* readiness handshake, the NUMA-aware device counter, the lazily built    *)
(* system-info snapshot, the command-line splicer with its derived         *)
(* accessors, and main's entry sequence.                                   *)
(*                                                                         *)
(* C strings are modelled as sequences of bytes; a byte is written as a    *)
(* one-character TLA+ string for ASCII and as its two hex digits for the   *)
(* bytes of a multi-byte UTF-8 character ("D1", "81").                     *)
(***************************************************************************)
EXTENDS Integers, Sequences, FiniteSets, TLC

VARIABLES
    \* ---- get_sys_info: function-local statics and its callers
    guard,        \* static std::mutex guard: 0 = free, t = held by thread t
    is_setup,     \* static bool is_setup
    info,         \* static extended_info_t info
    pc,           \* pc[t]: position of thread t inside get_sys_info
    pos,          \* pos[t]: next line of the descriptor stream thread t reads
    sockIdx,      \* sockIdx[t]: loop variable i of the per-socket loop
    callsLeft,    \* callsLeft[t]: calls thread t may still start
    ret,          \* ret[t]: the snapshot seen through the last returned reference
    nret,         \* nret[t]: number of calls of thread t that returned
    builds,       \* number of executions of the block guarded by !is_setup
    lockAcq,      \* lockAcq[t]: guard.lock() calls of thread t that succeeded
    raised,       \* raised[t]: exceptions thrown out of get_sys_info in thread t
    file,         \* the lines of /proc/cpuinfo
    devices,      \* hw_dispatcher's devices: the numa_id() of each
    \* ---- get_num_devices, iterated
    dNode, dIdx, dCounter, dPc, dHits,
    \* ---- command line
    argv, argc, argcNull, scan, ppc, FLAGS, helpCount, argvOrig,
    \* ---- derived accessors
    block_size, in_mem, out_mem, accRes, accFirst,
    \* ---- registry
    registry, drainIdx, invoked, drains,
    \* ---- main
    mainpc, events, hwStatus, exitCode

sysVars  == <<guard, is_setup, info, pc, pos, sockIdx, callsLeft, ret, nret,
              builds, lockAcq, raised, file>>
devVars  == <<dNode, dIdx, dCounter, dPc, dHits>>
cmdVars  == <<argv, argc, argcNull, scan, ppc, helpCount, argvOrig>>
accVars  == <<block_size, in_mem, out_mem, accRes, accFirst>>
regVars  == <<registry, drainIdx, invoked, drains>>
mainVars == <<mainpc, events, hwStatus, exitCode>>
vars == <<sysVars, devices, devVars, cmdVars, FLAGS, accVars, regVars, mainVars>>

-----------------------------------------------------------------------------
(* Bounds of the model *)

NumThreads  == 2   \* threads calling get_sys_info
MaxCalls    == 2   \* calls of get_sys_info per thread
MaxSysLines == 2   \* lines of /proc/cpuinfo in the concurrent specification
MaxSysDevs  == 1   \* devices in the concurrent specification
MaxDevices  == 5   \* devices of the topology handed to get_num_devices
MaxArgs     == 3   \* command-line arguments after the program name
MaxBlockLen == 3   \* characters of the block_size flag
MaxCallbacks == 3  \* callbacks registered before main
MaxDrains   == 2   \* times the registry is drained
MaxMainArgs == 2   \* command-line arguments of a run of main
MaxFairArgs == 2   \* command-line arguments in the specification with fairness
MaxBuildLines == 3 \* lines of /proc/cpuinfo in the single-caller specification

Threads == 1..NumThreads

-----------------------------------------------------------------------------
(* Integer widths *)

(***************************************************************************)
(* TLC's integers are 32-bit.  A std::uint32_t is therefore written as the *)
(* std::int32_t with the same bit pattern (4294967295 is written -1), so   *)
(* that the conversions between the two are the identity on the encoding,  *)
(* and +, * and the unsigned comparisons are defined on the encoding.      *)
(***************************************************************************)

\* a + b modulo 2^32, on the encoding
AddW(a, b) ==
    IF b > 0 /\ a > 2147483647 - b
    THEN (a - 2147483647 - 1) + (b - 2147483647 - 1)
    ELSE IF b < 0 /\ a < (-2147483647 - 1) - b
    THEN (a + 2147483647 + 1) + (b + 2147483647 + 1)
    ELSE a + b

\* a * b modulo 2^32 on the encoding, by shift and add over the 32 bits of
\* b: b % 2 is its lowest bit and half its logical shift right by one
RECURSIVE MulW(_, _)
MulW(a, b) ==
    LET half == IF b >= 0 THEN b \div 2
                ELSE ((b + 2147483647 + 1) \div 2) + 1073741824
    IN  IF b = 0 THEN 0
        ELSE AddW(MulW(AddW(a, a), half), IF b % 2 = 1 THEN a ELSE 0)

\* unsigned a < b on the encoding
ULt(a, b) ==
    \/ a >= 0 /\ b >= 0 /\ a < b
    \/ a >= 0 /\ b < 0
    \/ a < 0 /\ b < 0 /\ a < b

\* the product of two std::uint32_t
UMul(a, b) == MulW(a, b)

\* a faulty variant: the larger value is not kept
UMax_Second(a, b) == b

\* std::max of two std::uint32_t
UMax(a, b) == IF ULt(a, b) THEN b ELSE a

\* unsigned a / d for an even d > 0
UDiv(a, d) ==
    IF a >= 0 THEN a \div d
    ELSE (((a + 2147483647) + 1) \div 2 + 1073741824) \div (d \div 2)

\* whether the std::int32_t product a * m (m > 0) is representable:
\* -2^31 <= a * m <= 2^31 - 1
MulFits(a, m) ==
    /\ a <= 2147483647 \div m
    /\ a >= 0 - (2147483647 \div m) - (IF 2147483647 % m = m - 1 THEN 1 ELSE 0)

\* (uint64_t)(-1), the numa_id() of a device whose locality is unknown, written
\* as the signed value with the same bits.  The numa_id() of the model's other
\* devices are small and non-negative.
UnknownNuma == -1

\* device.numa_id() == numa: a uint64_t against a uint32_t, which is
\* zero-extended.  A numa of 2^31 or more (negative encoding) equals no
\* numa_id() of the model, the all-ones 64-bit value included.
NumaEq(d, numa) == numa >= 0 /\ d = numa

\* all sequences over S of length at most n
SeqsUpTo(S, n) == UNION {[1..k -> S] : k \in 0..n}

-----------------------------------------------------------------------------
(* C library character and number conversions *)

DecDigits == <<"0", "1", "2", "3", "4", "5", "6", "7", "8", "9">>
UpperCase == <<"A", "B", "C", "D", "E", "F", "G", "H", "I", "J", "K", "L", "M",
               "N", "O", "P", "Q", "R", "S", "T", "U", "V", "W", "X", "Y", "Z">>
LowerCase == <<"a", "b", "c", "d", "e", "f", "g", "h", "i", "j", "k", "l", "m",
               "n", "o", "p", "q", "r", "s", "t", "u", "v", "w", "x", "y", "z">>

IndexIn(seq, c) == CHOOSE k \in 1..Len(seq) : seq[k] = c
IsIn(seq, c)    == \E k \in 1..Len(seq) : seq[k] = c

IsDigit(c)  == IsIn(DecDigits, c)
DigitVal(c) == IndexIn(DecDigits, c) - 1
IsAlnum(c)  == IsDigit(c) \/ IsIn(UpperCase, c) \/ IsIn(LowerCase, c)

\* ::toupper / ::tolower in the "C" locale: only ASCII letters change
toupper(c) == IF IsIn(LowerCase, c) THEN UpperCase[IndexIn(LowerCase, c)] ELSE c
tolower(c) == IF IsIn(UpperCase, c) THEN LowerCase[IndexIn(UpperCase, c)] ELSE c

\* std::transform(str.begin(), str.end(), str.begin(), ::toupper / ::tolower)
ToUpperStr(s) == [k \in 1..Len(s) |-> toupper(s[k])]
ToLowerStr(s) == [k \in 1..Len(s) |-> tolower(s[k])]

IsHexDigit(c) == IsDigit(c) \/ (IsIn(LowerCase, tolower(c)) /\ IndexIn(LowerCase, tolower(c)) <= 6)
HexVal(c)     == IF IsDigit(c) THEN DigitVal(c) ELSE 9 + IndexIn(LowerCase, tolower(c))

\* number of leading characters of s[k..] that are digits of the base
RECURSIVE DigitRun(_, _, _)
DigitRun(s, k, base) ==
    IF k > Len(s) THEN 0
    ELSE IF (base = 10 /\ IsDigit(s[k])) \/ (base = 16 /\ IsHexDigit(s[k]))
         THEN 1 + DigitRun(s, k + 1, base)
    ELSE 0

\* isspace in the "C" locale: space, \t, \n, \v (byte 0B), \f, \r
IsSpace(c) == c \in {" ", "\t", "\n", "0B", "\f", "\r"}

RECURSIVE SpaceRun(_, _)
SpaceRun(s, k) == IF k <= Len(s) /\ IsSpace(s[k]) THEN 1 + SpaceRun(s, k + 1) ELSE 0

(***************************************************************************)
(* Natural numbers of any size are sequences of digits of a radix, the     *)
(* least significant first and no zero at the upper end (zero is <<>>).    *)
(***************************************************************************)

\* the digits of le * k + carry from position i on
RECURSIVE MulAddFrom(_, _, _, _, _)
MulAddFrom(le, i, k, carry, radix) ==
    IF i > Len(le)
    THEN IF carry = 0 THEN <<>>
         ELSE <<carry % radix>> \o MulAddFrom(le, i, k, carry \div radix, radix)
    ELSE <<(le[i] * k + carry) % radix>>
         \o MulAddFrom(le, i + 1, k, (le[i] * k + carry) \div radix, radix)

\* the number spelled in the base by the n digits of s from position k on,
\* after the digits that gave acc: the first half of the digits, then the
\* other half
RECURSIVE BigDigits(_, _, _, _, _, _)
BigDigits(s, k, n, base, acc, radix) ==
    LET half == BigDigits(s, k, n \div 2, base, acc, radix)
    IN  IF n = 0 THEN acc
        ELSE IF n = 1 THEN MulAddFrom(acc, 1, base, HexVal(s[k]), radix)
        ELSE IF Len(half) >= 0
        THEN BigDigits(s, k + n \div 2, n - n \div 2, base, half, radix)
        ELSE acc

(***************************************************************************)
(* A long has 64 bits.  Its value is written as a sign and a magnitude in  *)
(* radix 2^16: [neg, mag].                                                 *)
(***************************************************************************)

\* the long strtol returns for a sign and the magnitude its digits spell:
\* LONG_MAX or LONG_MIN when the number is out of range
LongOf(neg, raw) ==
    LET over == Len(raw) > 4 \/ (Len(raw) = 4 /\ raw[4] >= 32768)
    IN  IF neg THEN [neg |-> Len(raw) > 0,
                     mag |-> IF over THEN <<0, 0, 0, 32768>> ELSE raw]
        ELSE [neg |-> FALSE,
              mag |-> IF over THEN <<65535, 65535, 65535, 32767>> ELSE raw]

\* strtol(s, &end, base): skips white space, takes an optional sign, for base
\* 16 an optional 0x, then the digits. val is the long; used is the number
\* of characters consumed (0 when no digit was found, as strtol sets end = s).
strtol(s, base) ==
    LET w   == SpaceRun(s, 1)
        sgn == IF w + 1 <= Len(s) /\ s[w + 1] \in {"-", "+"} THEN 1 ELSE 0
        pfx == IF base = 16 /\ w + sgn + 2 <= Len(s) /\ s[w + sgn + 1] = "0"
                  /\ s[w + sgn + 2] \in {"x", "X"} /\ DigitRun(s, w + sgn + 3, 16) > 0
               THEN 2 ELSE 0
        n   == DigitRun(s, w + sgn + pfx + 1, base)
    IN  IF n = 0 THEN [val |-> LongOf(FALSE, <<>>), used |-> 0]
        ELSE [val |-> LongOf(sgn = 1 /\ s[w + 1] = "-",
                             BigDigits(s, w + sgn + pfx + 1, n, base, <<>>, 65536)),
              used |-> w + sgn + pfx + n]

\* the conversion of a long to int or to std::uint32_t: its low 32 bits, on
\* the encoding
LongToInt(x) ==
    LET l0 == IF Len(x.mag) >= 1 THEN x.mag[1] ELSE 0
        l1 == IF Len(x.mag) >= 2 THEN x.mag[2] ELSE 0
        u  == IF l1 >= 32768 THEN (l1 - 65536) * 65536 + l0 ELSE l1 * 65536 + l0
    IN  IF x.neg THEN (IF u = -2147483647 - 1 THEN u ELSE 0 - u) ELSE u

\* whether a long is the value of an int32_t
LongIsInt32(x) ==
    \/ Len(x.mag) <= 1
    \/ Len(x.mag) = 2 /\ x.mag[2] < 32768
    \/ x.neg /\ x.mag = <<0, 32768>>

\* atoi(s) is (int)strtol(s, NULL, 10) in the C library of the build; for a
\* number outside int the result is the low 32 bits of strtol's long
atoi(s) == LongToInt(strtol(s, 10).val)

(***************************************************************************)
(* A double is written as the decimal number it was read from:             *)
(* [kind |-> "fin", neg, digits, exp10] is the integer spelled by digits   *)
(* (most significant first, no zero at either end) times 10^exp10, zero    *)
(* having no digits; [kind |-> "inf", neg] and [kind |-> "nan"] are the    *)
(* other values.  The ends of the range are those of the double: a number  *)
(* that rounds above DBL_MAX is "inf", one that rounds below the smallest  *)
(* subnormal is zero.  Rounding to 53 bits inside the range is not part of *)
(* it: there, two texts give the same double when they spell the same      *)
(* number.                                                                 *)
(***************************************************************************)

\* le * k^n in radix 10^4, for k = 2 and k = 5: up to seven factors in one
\* multiplication, more as one half of them and then the other half
RECURSIVE BigTimesPow(_, _, _)
BigTimesPow(le, k, n) ==
    LET half == BigTimesPow(le, k, n \div 2)
    IN  IF n <= 7 THEN MulAddFrom(le, 1, k ^ n, 0, 10000)
        ELSE IF Len(half) >= 0 THEN BigTimesPow(half, k, n - n \div 2)
        ELSE le

\* the decimal digits of le (radix 10^4), most significant first, without
\* leading zeros
DigitsOf(le) ==
    LET Dg(j) == (le[((j - 1) \div 4) + 1] \div (10 ^ ((j - 1) % 4))) % 10
        hz    == CHOOSE z \in 0..(4 * Len(le)) :
                    /\ (z < 4 * Len(le) => Dg(4 * Len(le) - z) # 0)
                    /\ \A j \in 1..z : Dg(4 * Len(le) + 1 - j) = 0
    IN  [j \in 1..(4 * Len(le) - hz) |-> Dg(4 * Len(le) - hz + 1 - j)]

\* the double for the number whose decimal digits are all (most significant
\* first, no zero at the front) times 10^e10, rounding to nearest at the ends
\* of the range: HUGE_VAL from 2^1024 - 2^970 on (half an ulp above DBL_MAX),
\* zero up to 2^-1075 (half the smallest subnormal). Numbers are compared by
\* their decimal digits once their leading digits have the same weight
\* (10^308 and 10^-324 for the two limits).
Fin(neg, all, e10) ==
    LET tz   == CHOOSE z \in 0..Len(all) :
                   /\ (z < Len(all) => all[Len(all) - z] # 0)
                   /\ \A j \in 1..z : all[Len(all) + 1 - j] = 0
        At(q, k) == IF k <= Len(q) THEN q[k] ELSE 0
        Less(a, b) == \E k \in 1..(Len(a) + Len(b)) :
                         /\ At(a, k) < At(b, k)
                         /\ \A j \in 1..(k - 1) : At(a, j) = At(b, j)
        top  == DigitsOf(BigTimesPow([BigTimesPow(<<1>>, 2, 54) EXCEPT ![1] = @ - 1], 2, 970))
        low  == DigitsOf(BigTimesPow(<<1>>, 5, 1075))
        zero == [kind |-> "fin", neg |-> neg, digits |-> <<>>, exp10 |-> 0]
    IN  IF Len(all) = 0 THEN zero
        ELSE IF Len(all) - 1 + e10 > 308
                \/ (Len(all) - 1 + e10 = 308 /\ ~Less(all, top))
        THEN [kind |-> "inf", neg |-> neg, digits |-> <<>>, exp10 |-> 0]
        ELSE IF Len(all) - 1 + e10 < -324
                \/ (Len(all) - 1 + e10 = -324 /\ ~Less(low, all)) THEN zero
        ELSE [kind |-> "fin", neg |-> neg, digits |-> SubSeq(all, 1, Len(all) - tz),
              exp10 |-> e10 + tz]

-----------------------------------------------------------------------------
(* get_num_devices (lines 72-100) *)

\* a faulty variant of the loop body: the unknown-locality branch is missing
DeviceCounts_NoUnknown(d, numa) == IF NumaEq(d, numa) THEN 1 ELSE 0

\* the loop body for a device with numa_id d (uint64_t) and the requested node
\* numa (uint32_t, promoted for the comparison): the increment of counter
DeviceCounts(d, numa) ==
    IF NumaEq(d, numa) THEN 1
    ELSE IF ~NumaEq(d, numa) /\ d = UnknownNuma THEN 1
    ELSE 0

RECURSIVE CountFrom(_, _, _)
CountFrom(devs, k, numa) ==
    IF k > Len(devs) THEN 0
    ELSE DeviceCounts(devs[k], numa) + CountFrom(devs, k + 1, numa)

get_num_devices(devs, numa) == CountFrom(devs, 1, numa)

-----------------------------------------------------------------------------
(* get_sys_info (lines 111-191) *)

\* a string literal as a sequence of bytes is written <<"a", "b">>; Str0 is ""
Str0 == <<>>

\* static extended_info_t info: zero-initialised static storage
InfoZero ==
    [host_name |-> "", kernel |-> "", cpu_model_name |-> Str0,
     cpu_model |-> 0, cpu_microcode |-> 0, cpu_stepping |-> 0,
     cpu_logical_cores |-> 0, cpu_physical_cores |-> 0, cpu_sockets |-> 0,
     cpu_physical_per_socket |-> 0, cpu_physical_per_cluster |-> 0,
     total_devices |-> 0, socket |-> <<>>]

\* constexpr std::uint32_t clusters_per_socket = 4
clusters_per_socket == 4

\* A line of the descriptor stream after the split at ':' and trim():
\* kind "empty" (line.empty()), "nocolon" (find(':') == npos) or "kv".
Line(k, v) == [kind |-> "kv", key |-> k, val |-> v]
EmptyLine   == [kind |-> "empty", key |-> "", val |-> Str0]
NoColonLine == [kind |-> "nocolon", key |-> "", val |-> Str0]

\* the body of the while loop over the lines (lines 133-157)
ProcessLine(inf, line) ==
    IF line.kind = "empty" THEN inf
    ELSE IF line.kind = "nocolon" THEN inf
    ELSE IF line.key = "processor"
         THEN [inf EXCEPT !.cpu_logical_cores = AddW(@, 1)]
    ELSE IF line.key = "physical id"
         THEN [inf EXCEPT !.cpu_sockets = UMax(@, AddW(atoi(line.val), 1))]
    ELSE IF inf.cpu_physical_per_socket = 0 /\ line.key = "cpu cores"
         THEN [inf EXCEPT !.cpu_physical_per_socket = UMax(@, atoi(line.val))]
    ELSE IF Len(inf.cpu_model_name) = 0 /\ line.key = "model name"
         THEN [inf EXCEPT !.cpu_model_name = line.val]
    ELSE IF inf.cpu_model = 0 /\ line.key = "model"
         THEN [inf EXCEPT !.cpu_model = atoi(line.val)]
    ELSE IF inf.cpu_microcode = 0 /\ line.key = "microcode"
         THEN [inf EXCEPT !.cpu_microcode = LongToInt(strtol(line.val, 16).val)]
    ELSE IF inf.cpu_stepping = 0 /\ line.key = "stepping"
         THEN [inf EXCEPT !.cpu_stepping = atoi(line.val)]
    ELSE inf

\* a faulty variant: a lock that excludes nobody
LockFree_NoExclusion == TRUE

\* guard.lock() can be taken by a caller without waiting
LockFree == guard = 0

\* a faulty variant: the flag is not consulted
NeedsBuild_Always == TRUE

\* if(!is_setup)
NeedsBuild == ~is_setup

otherThanSys == <<devices, devVars, cmdVars, FLAGS, accVars, regVars, mainVars>>

\* a thread enters get_sys_info and reaches guard.lock()
SysCall(t) ==
    /\ pc[t] = "idle"
    /\ callsLeft[t] > 0
    /\ callsLeft' = [callsLeft EXCEPT ![t] = @ - 1]
    /\ pc' = [pc EXCEPT ![t] = "lock"]
    /\ UNCHANGED <<guard, is_setup, info, pos, sockIdx, ret, nret, builds, lockAcq, raised, file>>
    /\ UNCHANGED otherThanSys

\* guard.lock() (line 117)
SysLock(t) ==
    /\ pc[t] = "lock"
    /\ LockFree
    /\ guard' = t
    /\ lockAcq' = [lockAcq EXCEPT ![t] = @ + 1]
    /\ pc' = [pc EXCEPT ![t] = "check"]
    /\ UNCHANGED <<is_setup, info, pos, sockIdx, callsLeft, ret, nret, builds, raised, file>>
    /\ UNCHANGED otherThanSys

\* guard.lock() by the thread that already owns the mutex is undefined
\* behaviour for std::mutex: the call either never returns (no step) or fails
\* with std::system_error (this step)
SysRelockError(t) ==
    /\ pc[t] = "lock"
    /\ guard = t
    /\ raised' = [raised EXCEPT ![t] = @ + 1]
    /\ pc' = [pc EXCEPT ![t] = "idle"]
    /\ UNCHANGED <<guard, is_setup, info, pos, sockIdx, callsLeft, ret, nret, builds, lockAcq, file>>
    /\ UNCHANGED otherThanSys

\* if(!is_setup) and, when taken, uname() (lines 118-124)
SysCheck(t) ==
    /\ pc[t] = "check"
    /\ IF NeedsBuild
       THEN /\ builds' = builds + 1
            /\ info' = [info EXCEPT !.host_name = "nodename", !.kernel = "release"]
            /\ pc' = [pc EXCEPT ![t] = "open"]
       ELSE /\ pc' = [pc EXCEPT ![t] = "unlock"]
            /\ UNCHANGED <<builds, info>>
    /\ UNCHANGED <<guard, is_setup, pos, sockIdx, callsLeft, ret, nret, lockAcq, raised, file>>
    /\ UNCHANGED otherThanSys

\* std::ifstream info_file("/proc/cpuinfo") opened (lines 126-127)
SysOpenOk(t) ==
    /\ pc[t] = "open"
    /\ pos' = [pos EXCEPT ![t] = 1]
    /\ pc' = [pc EXCEPT ![t] = "read"]
    /\ UNCHANGED <<guard, is_setup, info, sockIdx, callsLeft, ret, nret, builds, lockAcq, raised, file>>
    /\ UNCHANGED otherThanSys

\* the stream is not open: throw std::runtime_error (line 128); the function
\* is left without guard.unlock()
SysOpenFail(t) ==
    /\ pc[t] = "open"
    /\ raised' = [raised EXCEPT ![t] = @ + 1]
    /\ pc' = [pc EXCEPT ![t] = "idle"]
    /\ UNCHANGED <<guard, is_setup, info, pos, sockIdx, callsLeft, ret, nret, builds, lockAcq, file>>
    /\ UNCHANGED otherThanSys

\* one iteration of while(std::getline(info_file, line)), or its exit followed
\* by the derived totals (lines 131-162)
SysReadLine(t) ==
    /\ pc[t] = "read"
    /\ IF pos[t] <= Len(file)
       THEN /\ info' = ProcessLine(info, file[pos[t]])
            /\ pos' = [pos EXCEPT ![t] = @ + 1]
            /\ UNCHANGED <<pc, sockIdx>>
       ELSE /\ info' = [info EXCEPT
                   !.cpu_physical_cores = UMul(info.cpu_physical_per_socket, info.cpu_sockets),
                   !.cpu_physical_per_cluster = UDiv(info.cpu_physical_per_socket, clusters_per_socket)]
            /\ sockIdx' = [sockIdx EXCEPT ![t] = 0]
            /\ pc' = [pc EXCEPT ![t] = "enum"]
            /\ UNCHANGED pos
    /\ UNCHANGED <<guard, is_setup, callsLeft, ret, nret, builds, lockAcq, raised, file>>
    /\ UNCHANGED otherThanSys

\* one iteration of the per-socket loop (lines 164-169), or its exit followed
\* by the printed summary and is_setup = true (lines 171-186)
SysEnum(t) ==
    /\ pc[t] = "enum"
    /\ IF ULt(sockIdx[t], info.cpu_sockets)
       THEN /\ LET devs == get_num_devices(devices, sockIdx[t])
               IN info' = [info EXCEPT !.total_devices = @ + devs,
                                       !.socket = Append(@, devs)]
            /\ sockIdx' = [sockIdx EXCEPT ![t] = AddW(@, 1)]
            /\ UNCHANGED <<pc, is_setup>>
       ELSE /\ is_setup' = TRUE
            /\ pc' = [pc EXCEPT ![t] = "unlock"]
            /\ UNCHANGED <<info, sockIdx>>
    /\ UNCHANGED <<guard, pos, callsLeft, ret, nret, builds, lockAcq, raised, file>>
    /\ UNCHANGED otherThanSys

\* guard.unlock() (line 188)
SysUnlock(t) ==
    /\ pc[t] = "unlock"
    /\ guard' = 0
    /\ pc' = [pc EXCEPT ![t] = "return"]
    /\ UNCHANGED <<is_setup, info, pos, sockIdx, callsLeft, ret, nret, builds, lockAcq, raised, file>>
    /\ UNCHANGED otherThanSys

\* return info (line 190): the caller reads the snapshot through the reference
SysReturn(t) ==
    /\ pc[t] = "return"
    /\ ret' = [ret EXCEPT ![t] = info]
    /\ nret' = [nret EXCEPT ![t] = @ + 1]
    /\ pc' = [pc EXCEPT ![t] = "idle"]
    /\ UNCHANGED <<guard, is_setup, info, pos, sockIdx, callsLeft, builds, lockAcq, raised, file>>
    /\ UNCHANGED otherThanSys

\* the statics of get_sys_info before its first call
InitSysStatics ==
    /\ guard = 0
    /\ is_setup = FALSE
    /\ info = InfoZero
    /\ pc = [t \in Threads |-> "idle"]
    /\ pos = [t \in Threads |-> 0]
    /\ sockIdx = [t \in Threads |-> 0]
    /\ ret = [t \in Threads |-> InfoZero]
    /\ nret = [t \in Threads |-> 0]
    /\ builds = 0
    /\ lockAcq = [t \in Threads |-> 0]
    /\ raised = [t \in Threads |-> 0]

-----------------------------------------------------------------------------
(* The flag store (lines 199-211) *)

\* the double n / 10^e of an integer n
Dbl(n, e) ==
    Fin(n < 0, DigitsOf(MulAddFrom(<<>>, 1, 1, IF n < 0 THEN 0 - n ELSE n, 10000)), 0 - e)

\* out_mem's default as the source spells it: Latin c, Cyrillic es (bytes D1
\* 81), then _ram
OutMemDefault == <<"c", "D1", "81", "_", "r", "a", "m">>

FlagDefaults ==
    [block_size |-> <<"-", "1">>, queue_size |-> 0, batch_size |-> 0,
     threads |-> 0, node |-> -1, dataset |-> Str0,
     in_mem |-> <<"l", "l", "c">>, out_mem |-> OutMemDefault,
     full_time |-> FALSE, no_hw |-> FALSE,
     canned_part |-> Dbl(-1, 0), canned_regen |-> FALSE]

-----------------------------------------------------------------------------
(* States of the parts a specification does not exercise *)

ProgName == [dash |-> FALSE, name |-> "prog", eq |-> FALSE, val |-> Str0]

IdleDev == dNode = 0 /\ dIdx = 0 /\ dCounter = 0 /\ dPc = "idle" /\ dHits = <<>>
IdleCmd ==
    /\ argv = <<ProgName>> /\ argvOrig = <<ProgName>> /\ argc = 1 /\ argcNull = FALSE
    /\ scan = 1 /\ ppc = "idle" /\ helpCount = 0
IdleAcc ==
    /\ block_size = -1 /\ in_mem = -1 /\ out_mem = -1
    /\ accRes = [fn |-> "none", kind |-> "none", val |-> 0, first |-> FALSE]
    /\ accFirst = [f \in {"block_size", "in_mem", "out_mem"} |-> TRUE]
IdleReg == registry = <<>> /\ drainIdx = 0 /\ invoked = <<>> /\ drains = 0
IdleMain == mainpc = "idle" /\ events = <<>> /\ hwStatus = <<>> /\ exitCode = "none"

-----------------------------------------------------------------------------
(* Concurrent callers of get_sys_info *)

SysLinePool == {Line("processor", <<"0">>), Line("physical id", <<"0">>),
                Line("physical id", <<"1">>)}
SysDevPool  == {0, UnknownNuma}

InitSys ==
    /\ InitSysStatics
    /\ callsLeft = [t \in Threads |-> MaxCalls]
    /\ file \in SeqsUpTo(SysLinePool, MaxSysLines)
    /\ devices \in SeqsUpTo(SysDevPool, MaxSysDevs)
    /\ FLAGS = FlagDefaults
    /\ IdleDev /\ IdleCmd /\ IdleAcc /\ IdleReg /\ IdleMain

NextSys ==
    \/ \E t \in Threads : SysCall(t)
    \/ \E t \in Threads : SysLock(t)
    \/ \E t \in Threads : SysRelockError(t)
    \/ \E t \in Threads : SysCheck(t)
    \/ \E t \in Threads : SysOpenOk(t)
    \/ \E t \in Threads : SysOpenFail(t)
    \/ \E t \in Threads : SysReadLine(t)
    \/ \E t \in Threads : SysEnum(t)
    \/ \E t \in Threads : SysUnlock(t)
    \/ \E t \in Threads : SysReturn(t)

SpecSys == InitSys /\ [][NextSys]_vars

\* C1: for any number of threads calling get_sys_info concurrently, the block
\* guarded by !is_setup is executed at most once, exactly once as soon as any
\* call has returned, and every returned reference shows the same snapshot.
C1_BuildOnce ==
    /\ builds <= 1
    /\ \A t \in Threads : nret[t] > 0 => builds = 1 /\ is_setup /\ ret[t] = info
    /\ \A t, u \in Threads : nret[t] > 0 /\ nret[u] > 0 => ret[t] = ret[u]

\* two different threads have both completed their first call while the
\* snapshot holds data read from a non-empty descriptor stream
C1_Witness ==
    \E t, u \in Threads :
        /\ t # u /\ nret[t] > 0 /\ nret[u] > 0
        /\ builds = 1 /\ info.cpu_logical_cores > 0 /\ info.cpu_sockets > 0

\* C2: once a call has returned, every later return shows the snapshot the
\* earlier ones showed, and no step writes a field of info while is_setup.
C2_Idempotent ==
    [][ /\ (is_setup => info' = info)
        /\ \A t, u \in Threads :
              (nret[u] > 0 /\ nret'[t] = nret[t] + 1) => ret'[t] = ret[u] ]_vars

\* a thread has returned twice and the snapshot is non-trivial
C2_Witness ==
    \E t \in Threads : nret[t] >= 2 /\ ret[t] = info /\ info.cpu_logical_cores > 0
                       /\ Len(info.socket) > 0

\* the steps of a call of get_sys_info that the thread running it takes
\* whenever it can; a lock() on a mutex the thread already owns is left out,
\* since it need not return
SysProgress(t) ==
    \/ SysLock(t) \/ SysCheck(t) \/ SysOpenOk(t) \/ SysOpenFail(t)
    \/ SysReadLine(t) \/ SysEnum(t) \/ SysUnlock(t) \/ SysReturn(t)

\* concurrent callers, each of them scheduled again and again
SpecSysFair == SpecSys /\ \A t \in Threads : WF_vars(SysProgress(t))

\* C15: every call of get_sys_info that has reached guard.lock() eventually
\* returns or raises, in every interleaving of the callers, also after a call
\* whose build failed to open the descriptor stream.
C15_EveryCallEnds ==
    \A t \in Threads : (pc[t] = "lock") ~> (pc[t] = "idle")

\* C16: a thread one of whose calls has returned, so that the build is
\* complete, never acquires guard again, and never stands at guard.lock()
\* while another thread holds the mutex.
C16_ReadersTakeNoLock ==
    /\ [][\A t \in Threads : nret[t] > 0 => lockAcq'[t] = lockAcq[t]]_vars
    /\ [](\A t \in Threads : (nret[t] > 0 /\ pc[t] = "lock") => guard = 0)

-----------------------------------------------------------------------------
(* One caller of get_sys_info and the contents of the descriptor stream *)

\* the thread that calls get_sys_info
BuildThread == 1

\* lines carrying the keys that are captured once, with zero, empty and
\* different non-zero values
CapturePool ==
    {Line("model name", Str0), Line("model name", <<"X">>), Line("model name", <<"Y">>),
     Line("model", <<"0">>), Line("model", <<"6">>),
     Line("microcode", <<"0", "x", "0">>), Line("microcode", <<"0", "x", "2", "b">>),
     Line("microcode", <<"0", "x", "1", "0", "0", "0", "0", "0", "0", "0", "0">>),
     Line("stepping", <<"0">>), Line("stepping", <<"3">>),
     Line("cpu cores", <<"0">>), Line("cpu cores", <<"4">>), Line("cpu cores", <<"8">>)}

\* lines that count processors and sockets, and lines that are skipped
SocketPool ==
    {Line("processor", <<"0">>), Line("physical id", <<"0">>), Line("physical id", <<"1">>),
     Line("physical id", <<"2">>), EmptyLine, NoColonLine}

\* device topologies: none, one device per kind of locality, no device on node 0
BuildTopologies == {<<>>, <<0, 1, UnknownNuma>>, <<1, 1, 2>>}

InitBuild ==
    /\ InitSysStatics
    /\ callsLeft = [t \in Threads |-> IF t = BuildThread THEN 1 ELSE 0]
    /\ \/ file \in SeqsUpTo(CapturePool, MaxBuildLines) /\ devices = <<>>
       \/ file \in SeqsUpTo(SocketPool, MaxBuildLines) /\ devices \in BuildTopologies
    /\ FLAGS = FlagDefaults
    /\ IdleDev /\ IdleCmd /\ IdleAcc /\ IdleReg /\ IdleMain

NextBuild ==
    \/ SysCall(BuildThread)
    \/ SysLock(BuildThread)
    \/ SysCheck(BuildThread)
    \/ SysOpenOk(BuildThread)
    \/ SysReadLine(BuildThread)
    \/ SysEnum(BuildThread)
    \/ SysUnlock(BuildThread)
    \/ SysReturn(BuildThread)

SpecBuild == InitBuild /\ [][NextBuild]_vars

\* the lines of the stream that carry the key
LinesWith(key) == {k \in 1..Len(file) : file[k].kind = "kv" /\ file[k].key = key}

\* the value of the first line of the stream that carries the key
FirstVal(key) == file[CHOOSE k \in LinesWith(key) : \A j \in LinesWith(key) : k <= j].val

\* the lines with key cpu cores whose value is not zero
NonZeroCores == {k \in LinesWith("cpu cores") : atoi(file[k].val) # 0}

\* C17: when the build is complete the snapshot holds, for each of model
\* name, model, microcode and stepping, the value of the first line with that
\* key, whatever that value is, and for cpu cores the first non-zero value.
C17_FirstOccurrenceWins ==
    is_setup =>
        /\ LinesWith("model name") # {} => info.cpu_model_name = FirstVal("model name")
        /\ LinesWith("model") # {} => info.cpu_model = atoi(FirstVal("model"))
        /\ LinesWith("microcode") # {} => info.cpu_microcode = LongToInt(strtol(FirstVal("microcode"), 16).val)
        /\ LinesWith("stepping") # {} => info.cpu_stepping = atoi(FirstVal("stepping"))
        /\ info.cpu_physical_per_socket =
              IF NonZeroCores = {} THEN 0
              ELSE atoi(file[CHOOSE k \in NonZeroCores : \A j \in NonZeroCores : k <= j].val)

\* the physical ids of the stream
PhysicalIds == {atoi(file[k].val) : k \in LinesWith("physical id")}

\* the sum of a sequence of numbers
RECURSIVE SumSeq(_)
SumSeq(q) == IF q = <<>> THEN 0 ELSE Head(q) + SumSeq(Tail(q))

\* C18: when the build is complete the socket count is the largest physical
\* id of the stream plus one (0 without any), the per-socket list has one
\* entry per socket, entry i is the number of devices on node i or of unknown
\* locality, as get_num_devices(i) counts them, and the total is the sum of
\* the entries.
C18_SocketsAndDevices ==
    is_setup =>
        /\ info.cpu_sockets = IF PhysicalIds = {} THEN 0
                               ELSE (CHOOSE m \in PhysicalIds : \A n \in PhysicalIds : n <= m) + 1
        /\ Len(info.socket) = info.cpu_sockets
        /\ \A i \in 1..Len(info.socket) :
              /\ info.socket[i] = get_num_devices(devices, i - 1)
              /\ info.socket[i] = Cardinality({k \in 1..Len(devices) :
                                                  devices[k] = i - 1 \/ devices[k] = UnknownNuma})
        /\ info.total_devices = SumSeq(info.socket)

\* physical ids 1, 0 and 2 in that order, three sockets, and a topology with
\* a device on node 0, one on node 1 and one of unknown locality
C18_Witness ==
    /\ is_setup /\ nret[BuildThread] = 1
    /\ file = <<Line("physical id", <<"1">>), Line("physical id", <<"0">>),
                Line("physical id", <<"2">>)>>
    /\ devices = <<0, 1, UnknownNuma>>
    /\ info.cpu_sockets = 3 /\ info.socket = <<2, 2, 1>> /\ info.total_devices = 5

-----------------------------------------------------------------------------
(* Calls of get_num_devices, one loop iteration per step *)

DevPool  == {0, 1, UnknownNuma}
NodePool == {0, 1, 2}
\* values of IA32_TSC_AUX read by __rdtscp: the node is in the bits from 12 up
TscAuxPool == {0, 5, 4096, 4101, 8192}

otherThanDev == <<sysVars, devices, cmdVars, FLAGS, accVars, regVars, mainVars>>

\* get_num_devices(numa) is entered: counter = 0 (lines 72-75)
DevCall ==
    /\ dPc \in {"idle", "done"}
    /\ \E n \in NodePool : dNode' = n
    /\ dIdx' = 1 /\ dCounter' = 0 /\ dHits' = <<>> /\ dPc' = "loop"
    /\ UNCHANGED otherThanDev

\* get_current_numa_accels (lines 102-109): numa = tsc_aux >> 12
DevCallCurrent ==
    /\ dPc \in {"idle", "done"}
    /\ \E aux \in TscAuxPool : dNode' = aux \div 4096
    /\ dIdx' = 1 /\ dCounter' = 0 /\ dHits' = <<>> /\ dPc' = "loop"
    /\ UNCHANGED otherThanDev

\* one iteration of for(auto &device : disp), or the return (lines 76-99)
DevStep ==
    /\ dPc = "loop"
    /\ IF dIdx <= Len(devices)
       THEN /\ dCounter' = dCounter + DeviceCounts(devices[dIdx], dNode)
            /\ dHits' = Append(dHits, DeviceCounts(devices[dIdx], dNode))
            /\ dIdx' = dIdx + 1
            /\ UNCHANGED dPc
       ELSE /\ dPc' = "done"
            /\ UNCHANGED <<dCounter, dHits, dIdx>>
    /\ UNCHANGED <<dNode>>
    /\ UNCHANGED otherThanDev

InitDev ==
    /\ devices \in SeqsUpTo(DevPool, MaxDevices)
    /\ IdleDev
    /\ InitSysStatics /\ callsLeft = [t \in Threads |-> 0] /\ file = <<>>
    /\ FLAGS = FlagDefaults
    /\ IdleCmd /\ IdleAcc /\ IdleReg /\ IdleMain

NextDev == DevCall \/ DevCallCurrent \/ DevStep

SpecDev == InitDev /\ [][NextDev]_vars

\* C8: a finished call of get_num_devices(node) has counted the devices whose
\* locality is node plus the devices whose locality is unknown, each device at
\* most once, and no step of the call changes the topology.
C8_CountDevices ==
    /\ [](dPc = "done" =>
            /\ dCounter = Cardinality({k \in 1..Len(devices) : devices[k] = dNode})
                          + Cardinality({k \in 1..Len(devices) : devices[k] = UnknownNuma})
            /\ Len(dHits) = Len(devices)
            /\ \A k \in 1..Len(dHits) : dHits[k] <= 1)
    /\ [][devices' = devices]_vars

\* the topology {0, 0, 1, unknown, unknown} counted for node 0 gives 4
C8_Witness ==
    /\ dPc = "done" /\ dNode = 0 /\ dCounter = 4
    /\ devices = <<0, 0, 1, UnknownNuma, UnknownNuma>>

-----------------------------------------------------------------------------
(* The benchmark library's flag parsers, as parse_local uses them           *)
(* (lines 240-252, 260)                                                     *)

(***************************************************************************)
(* A command-line argument is a record: dash says that the text starts     *)
(* with "--", name is what follows up to the first '=' or the end, eq says *)
(* that a '=' is present and val is the text after it.  ProgName is        *)
(* argv[0].                                                                *)
(***************************************************************************)
Flag(n)       == [dash |-> TRUE, name |-> n, eq |-> FALSE, val |-> Str0]
FlagEq(n, v)  == [dash |-> TRUE, name |-> n, eq |-> TRUE, val |-> v]
Word(n)        == [dash |-> FALSE, name |-> n, eq |-> FALSE, val |-> Str0]

\* benchmark::ParseFlagValue(str, flag, def_optional): the text after
\* "--flag=" (or "" for a bare "--flag" when def_optional), or nullptr
ParseFlagValue(tok, flag, def_optional) ==
    IF ~tok.dash \/ tok.name # flag THEN [found |-> FALSE, val |-> Str0]
    ELSE IF def_optional /\ ~tok.eq THEN [found |-> TRUE, val |-> Str0]
    ELSE IF ~tok.eq THEN [found |-> FALSE, val |-> Str0]
    ELSE [found |-> TRUE, val |-> tok.val]

\* benchmark::IsTruthyFlagValue
IsTruthyFlagValue(v) ==
    IF Len(v) = 1
    THEN IsAlnum(v[1]) /\ ~(v[1] \in {"0", "f", "F", "n", "N"})
    ELSE IF Len(v) > 0
    THEN ~(ToLowerStr(v) \in {<<"f", "a", "l", "s", "e">>, <<"n", "o">>, <<"o", "f", "f">>})
    ELSE TRUE

\* benchmark::ParseInt32: strtol in base 10 must consume the whole text, and
\* the long must be the value of an int32_t (LONG_MAX and LONG_MIN are not)
ParseInt32(v) ==
    LET r == strtol(v, 10)
    IN  [ok |-> r.used = Len(v) /\ LongIsInt32(r.val), val |-> LongToInt(r.val)]

\* the number m (radix 10^4) when it is at most cap, else cap + 1
Capped(m, cap) ==
    LET x == (IF Len(m) > 0 THEN m[1] ELSE 0) + (IF Len(m) > 1 THEN 10000 * m[2] ELSE 0)
             + (IF Len(m) > 2 THEN 100000000 * m[3] ELSE 0)
    IN  IF Len(m) > 3 \/ (Len(m) = 3 /\ m[3] > 20) THEN cap + 1
        ELSE IF x > cap THEN cap + 1 ELSE x

\* the exponent of a number of strtod at position q of v: one of the
\* letters, an optional sign, decimal digits; len is 0 when there is none.
\* val is the exponent itself up to 8 * Len(v) + 1200 in magnitude, and one
\* more than that for every larger one: the digits of the number are fewer
\* than Len(v), so with any exponent beyond that magnitude the number is
\* beyond the range of double on the same side.
ExpAt(v, q, letters) ==
    LET s2 == IF q + 1 <= Len(v) /\ v[q + 1] \in {"-", "+"} THEN 1 ELSE 0
        ne == DigitRun(v, q + s2 + 1, 10)
    IN  IF q <= Len(v) /\ v[q] \in letters /\ ne > 0
        THEN [len |-> 1 + s2 + ne,
              val |-> (IF s2 = 1 /\ v[q + 1] = "-" THEN -1 ELSE 1)
                      * Capped(BigDigits(v, q + s2 + 1, ne, 10, <<>>, 10000),
                               8 * Len(v) + 1200)]
        ELSE [len |-> 0, val |-> 0]

\* the double m * 10^e (base 10) or m * 2^e (base 16), for m in radix 10^4
\* spelled with at most nd digits of the base: a power of 2 is written as a
\* power of 10, 2^e = 5^-e * 10^e for e < 0; a binary exponent that alone
\* puts the number beyond the range gives zero or a number above the range
Scaled(neg, base, nd, m, e) ==
    Fin(neg,
        DigitsOf(IF base = 10 THEN m
                 ELSE IF Len(m) = 0 \/ e < 0 - 1200 - 4 * nd THEN <<>>
                 ELSE IF e > 1100 THEN <<1>>
                 ELSE IF e >= 0 THEN BigTimesPow(m, 2, e)
                 ELSE BigTimesPow(m, 5, 0 - e)),
        IF base = 10 THEN e
        ELSE IF Len(m) = 0 \/ e < 0 - 1200 - 4 * nd THEN 0
        ELSE IF e > 1100 THEN 400
        ELSE IF e >= 0 THEN 0
        ELSE e)

\* the number of strtod whose digits start after position p of v: ni digits
\* of the base, then (dot) a point and nf digits, then an optional exponent,
\* e for a power of 10 after decimal digits, p for a power of 2 after
\* hexadecimal digits. The zeros that end the digits after the point (zf of
\* them), and those that end the digits before it when nothing else follows
\* (zi of them), are left out of the digits and kept in the exponent.
Number(v, p, neg, base, ni, dot, nf) ==
    LET ex == ExpAt(v, p + ni + (IF dot THEN 1 + nf ELSE 0) + 1,
                    IF base = 16 THEN {"p", "P"} ELSE {"e", "E"})
        zf == CHOOSE z \in 0..nf :
                 /\ (z < nf => v[p + ni + 1 + nf - z] # "0")
                 /\ \A j \in 1..z : v[p + ni + 2 + nf - j] = "0"
        zi == IF zf < nf THEN 0
              ELSE CHOOSE z \in 0..ni :
                      /\ (z < ni => v[p + ni - z] # "0")
                      /\ \A j \in 1..z : v[p + ni + 1 - j] = "0"
    IN  [val |-> Scaled(neg, base, ni + nf,
                        BigDigits(v, p + ni + 2, nf - zf, base,
                                  BigDigits(v, p + 1, ni - zi, base, <<>>, 10000), 10000),
                        ex.val + (IF base = 16 THEN 4 ELSE 1) * (zi - (nf - zf))),
         used |-> p + ni + (IF dot THEN 1 + nf ELSE 0) + ex.len]

\* what strtod reads after the white space and the sign, which end at
\* position p of v: a hexadecimal number after 0x, else a decimal number,
\* else inf, infinity, nan or nan(chars) in any case of letters
NumberAt(v, p, neg) ==
    LET hpfx == p + 2 <= Len(v) /\ v[p + 1] = "0" /\ v[p + 2] \in {"x", "X"}
        hi   == DigitRun(v, p + 3, 16)
        hdot == p + 3 + hi <= Len(v) /\ v[p + 3 + hi] = "."
        ni   == DigitRun(v, p + 1, 10)
        dot  == p + ni + 1 <= Len(v) /\ v[p + ni + 1] = "."
        low  == ToLowerStr(SubSeq(v, p + 1, Len(v)))
        nc   == CHOOSE c \in 0..Len(v) :
                   /\ \A j \in 1..c : p + 4 + j <= Len(v)
                                      /\ (IsAlnum(v[p + 4 + j]) \/ v[p + 4 + j] = "_")
                   /\ (p + 5 + c <= Len(v) =>
                          ~(IsAlnum(v[p + 5 + c]) \/ v[p + 5 + c] = "_"))
    IN  IF hpfx /\ hi + (IF hdot THEN DigitRun(v, p + 4 + hi, 16) ELSE 0) > 0
        THEN Number(v, p + 2, neg, 16, hi, hdot,
                    IF hdot THEN DigitRun(v, p + 4 + hi, 16) ELSE 0)
        ELSE IF ni + (IF dot THEN DigitRun(v, p + ni + 2, 10) ELSE 0) > 0
        THEN Number(v, p, neg, 10, ni, dot,
                    IF dot THEN DigitRun(v, p + ni + 2, 10) ELSE 0)
        ELSE IF Len(low) >= 8 /\ SubSeq(low, 1, 8) = <<"i", "n", "f", "i", "n", "i", "t", "y">>
        THEN [val |-> [kind |-> "inf", neg |-> neg, digits |-> <<>>, exp10 |-> 0],
              used |-> p + 8]
        ELSE IF Len(low) >= 3 /\ SubSeq(low, 1, 3) = <<"i", "n", "f">>
        THEN [val |-> [kind |-> "inf", neg |-> neg, digits |-> <<>>, exp10 |-> 0],
              used |-> p + 3]
        ELSE IF Len(low) >= 3 /\ SubSeq(low, 1, 3) = <<"n", "a", "n">>
        THEN [val |-> [kind |-> "nan", neg |-> FALSE, digits |-> <<>>, exp10 |-> 0],
              used |-> IF Len(low) >= 4 /\ low[4] = "(" /\ p + 5 + nc <= Len(v)
                          /\ v[p + 5 + nc] = ")"
                       THEN p + 5 + nc ELSE p + 3]
        ELSE [val |-> [kind |-> "fin", neg |-> FALSE, digits |-> <<>>, exp10 |-> 0],
              used |-> 0]

\* strtod(v, &end): skips white space, takes an optional sign, then the
\* number. val is the double and used the number of characters consumed (0
\* when there is no number, as strtod sets end = v).
strtod(v) ==
    LET w   == SpaceRun(v, 1)
        sgn == w + 1 <= Len(v) /\ v[w + 1] \in {"-", "+"}
    IN  NumberAt(v, IF sgn THEN w + 1 ELSE w, sgn /\ v[w + 1] = "-")

\* benchmark::ParseDouble: strtod must consume the whole text
ParseDouble(v) ==
    LET r == strtod(v)
    IN  [ok |-> r.used = Len(v), val |-> r.val]

\* benchmark::IsFlag(str, flag)
IsFlag(tok, flag) == ParseFlagValue(tok, flag, TRUE).found

StringFlagNames == {"dataset", "block_size", "in_mem", "out_mem"}
Int32FlagNames  == {"threads", "node", "queue_size", "batch_size"}
BoolFlagNames   == {"full_time", "no_hw", "canned_regen"}
DoubleFlagNames == {"canned_part"}
FlagNames == StringFlagNames \cup Int32FlagNames \cup BoolFlagNames \cup DoubleFlagNames

\* benchmark::ParseStringFlag / ParseInt32Flag / ParseBoolFlag /
\* ParseDoubleFlag on argv[i] for flag f: whether it returns true, and the
\* value it then stores
ParseFlag(tok, f) ==
    IF f \in StringFlagNames
    THEN LET r == ParseFlagValue(tok, f, FALSE) IN [ok |-> r.found, val |-> r.val]
    ELSE IF f \in Int32FlagNames
    THEN LET r == ParseFlagValue(tok, f, FALSE)
         IN  IF r.found THEN ParseInt32(r.val) ELSE [ok |-> FALSE, val |-> 0]
    ELSE IF f \in BoolFlagNames
    THEN LET r == ParseFlagValue(tok, f, TRUE)
         IN  [ok |-> r.found, val |-> IsTruthyFlagValue(r.val)]
    ELSE LET r == ParseFlagValue(tok, f, FALSE)
         IN  IF r.found THEN ParseDouble(r.val) ELSE [ok |-> FALSE, val |-> Dbl(0, 0)]

-----------------------------------------------------------------------------
(* parse_local (lines 236-263) *)

\* the flags in the order of the || chain of the if (lines 240-252)
ParseOrder == <<"dataset", "block_size", "threads", "node", "full_time",
                "queue_size", "batch_size", "no_hw", "in_mem", "out_mem",
                "canned_part", "canned_regen">>

\* the || chain from its k-th operand on: the first parser that returns true
\* stores its value and ends the evaluation
RECURSIVE ParseChain(_, _, _)
ParseChain(tok, flags, k) ==
    IF k > Len(ParseOrder) THEN [matched |-> FALSE, flags |-> flags]
    ELSE LET r == ParseFlag(tok, ParseOrder[k])
         IN  IF r.ok THEN [matched |-> TRUE,
                           flags |-> [flags EXCEPT ![ParseOrder[k]] = r.val]]
             ELSE ParseChain(tok, flags, k + 1)

\* a faulty variant: the --i is missing
ScanAfterRemove_NoStepBack(i) == i + 1

\* the scan index at the start of the next iteration after a removal at i:
\* --i (line 258), then the loop's ++i
ScanAfterRemove(i) == (i - 1) + 1

\* a faulty variant: the shift starts at argv[0]
ShiftLeft_FromZero(av, i, n) ==
    [k \in 1..Len(av) |-> IF k - 1 < n - 1 THEN av[k + 1] ELSE av[k]]

\* for(int j = i; j != *argc - 1; ++j) argv[j] = argv[j + 1]  (lines 254-255);
\* i and n are C indices, the sequence holds argv[0] at position 1
ShiftLeft(av, i, n) ==
    [k \in 1..Len(av) |-> IF k - 1 >= i /\ k - 1 < n - 1 THEN av[k + 1] ELSE av[k]]

\* for(int i = 1; ...) (line 238)
ScanStart == 1

\* a faulty variant: the usage text is never printed
HelpTriggered_Never(tok) == FALSE

\* else if (benchmark::IsFlag(argv[i], "help")) print_help() (lines 260-261)
HelpTriggered(tok) == IsFlag(tok, "help")

otherThanCmd == <<sysVars, devices, devVars, accVars, regVars, mainVars>>

\* parse_local is entered: int i = 1
ParseEnter ==
    /\ ppc = "idle"
    /\ ppc' = "loop"
    /\ scan' = ScanStart
    /\ UNCHANGED <<argv, argc, argcNull, helpCount, argvOrig, FLAGS>>
    /\ UNCHANGED otherThanCmd

\* one evaluation of the loop condition argc && i < *argc, followed by the
\* loop body and ++i, or by the return
ParseStep ==
    /\ ppc = "loop"
    /\ IF ~argcNull /\ scan < argc
       THEN LET r == ParseChain(argv[scan + 1], FLAGS, 1)
            IN  IF r.matched
                THEN /\ FLAGS' = r.flags
                     /\ argv' = ShiftLeft(argv, scan, argc)
                     /\ argc' = argc - 1
                     /\ scan' = ScanAfterRemove(scan)
                     /\ UNCHANGED <<helpCount, ppc>>
                ELSE /\ helpCount' = IF HelpTriggered(argv[scan + 1])
                                     THEN helpCount + 1 ELSE helpCount
                     /\ scan' = scan + 1
                     /\ UNCHANGED <<FLAGS, argv, argc, ppc>>
       ELSE /\ ppc' = "done"
            /\ UNCHANGED <<FLAGS, argv, argc, scan, helpCount>>
    /\ UNCHANGED <<argcNull, argvOrig>>
    /\ UNCHANGED otherThanCmd

\* arguments of every parser kind: accepted, rejected, unknown
CorePool ==
    {FlagEq("block_size", <<"4", "K">>),
     FlagEq("threads", <<"8">>), FlagEq("threads", <<"-", "4">>),
     FlagEq("threads", <<"x">>), Flag("no_hw"),
     Flag("help"), Flag("foo"), Word("foo")}

\* every flag of the closed set, and more shapes of values
ArgPool ==
    CorePool \cup
    {FlagEq("dataset", <<"d">>), Flag("threads"),
     FlagEq("node", <<"1">>), Flag("full_time"), FlagEq("full_time", <<"0">>),
     FlagEq("queue_size", <<"2">>), FlagEq("batch_size", <<>>),
     FlagEq("in_mem", <<"r", "a", "m">>), FlagEq("out_mem", <<"r", "a", "m">>),
     FlagEq("node", <<"2", "1", "4", "7", "4", "8", "3", "6", "4", "8">>),
     FlagEq("canned_part", <<"5", "e", "-", "1">>), FlagEq("canned_part", <<"1", ".", "x">>),
     Flag("canned_regen"), FlagEq("help", <<"1">>)}

\* argv[0]: the program's name, or a text that looks like a flag
ProgNames == {ProgName, Flag("no_hw")}

\* the argument lists of the model: up to MaxArgs arguments of CorePool, or
\* fewer of ArgPool
ArgLists == SeqsUpTo(CorePool, MaxArgs) \cup SeqsUpTo(ArgPool, MaxArgs - 1)

InitParse ==
    /\ \E args \in ArgLists, prog \in ProgNames :
          /\ argv = <<prog>> \o args
          /\ argvOrig = <<prog>> \o args
          /\ argc = 1 + Len(args)
    /\ argcNull \in BOOLEAN
    /\ scan = 0 /\ ppc = "idle" /\ helpCount = 0
    /\ FLAGS = FlagDefaults
    /\ InitSysStatics /\ callsLeft = [t \in Threads |-> 0] /\ file = <<>>
    /\ devices = <<>>
    /\ IdleDev /\ IdleAcc /\ IdleReg /\ IdleMain

NextParse == ParseEnter \/ ParseStep

SpecParse == InitParse /\ [][NextParse]_vars

\* the argument lists of the specification with fairness: short lists, and
\* one list made of recognized flags only
FairArgLists ==
    SeqsUpTo(CorePool, MaxFairArgs)
    \cup {<<FlagEq("threads", <<"8">>), FlagEq("block_size", <<"4", "K">>),
            FlagEq("threads", <<"-", "4">>)>>}

InitParseFair ==
    /\ \E args \in FairArgLists, prog \in ProgNames :
          /\ argv = <<prog>> \o args
          /\ argvOrig = <<prog>> \o args
          /\ argc = 1 + Len(args)
    /\ argcNull \in BOOLEAN
    /\ scan = 0 /\ ppc = "idle" /\ helpCount = 0
    /\ FLAGS = FlagDefaults
    /\ InitSysStatics /\ callsLeft = [t \in Threads |-> 0] /\ file = <<>>
    /\ devices = <<>>
    /\ IdleDev /\ IdleAcc /\ IdleReg /\ IdleMain

\* parse_local is called, and a loop iteration that can be executed is
\* executed: the thread running it is not suspended for ever
SpecParseFair == InitParseFair /\ [][NextParse]_vars /\ WF_vars(NextParse)

\* whether parse_local's parsers accept the argument as one of the flags
Recognized(tok) == \E f \in FlagNames : ParseFlag(tok, f).ok

\* the original arguments after the program name
OrigArgs == SubSeq(argvOrig, 2, Len(argvOrig))

IsUnrecognized(tok) == ~Recognized(tok)

\* C3: after parse_local, argv[0..argc-1] is the program name followed by the
\* unrecognized arguments in their original order; every flag that occurred
\* holds the value of its last recognized occurrence, every other flag its
\* default.
C3_SpliceRoundTrip ==
    (ppc = "done" /\ ~argcNull) =>
        /\ SubSeq(argv, 1, argc) = <<argvOrig[1]>> \o SelectSeq(OrigArgs, IsUnrecognized)
        /\ \A f \in FlagNames :
              LET occ == {k \in 1..Len(OrigArgs) : ParseFlag(OrigArgs[k], f).ok}
              IN  IF occ = {} THEN FLAGS[f] = FlagDefaults[f]
                  ELSE \E k \in occ : /\ \A m \in occ : m <= k
                                      /\ FLAGS[f] = ParseFlag(OrigArgs[k], f).val

\* two adjacent recognized flags, the second one trailing, after an
\* unrecognized argument: both were removed, the last value of threads won
C3_Witness ==
    /\ ppc = "done" /\ ~argcNull
    /\ argvOrig = <<ProgName, Flag("foo"), FlagEq("threads", <<"8">>), FlagEq("threads", <<"-", "4">>)>>
    /\ argc = 2 /\ argv[2] = Flag("foo") /\ FLAGS.threads = -4

\* the argument asks for help, bare or with a value
IsHelpToken(tok) == tok.dash /\ tok.name = "help"

\* C14: for a call with an argument count, every --help argument makes
\* parse_local print the usage text once; the step that examines it changes
\* neither argv, argc nor any flag; after the call the --help arguments are
\* all still in argv[1..argc-1], in their original order among the arguments
\* that were not removed.
C14_HelpStays ==
    /\ []((ppc = "done" /\ ~argcNull) =>
             /\ helpCount = Len(SelectSeq(OrigArgs, IsHelpToken))
             /\ SelectSeq(SubSeq(argv, 2, argc), IsHelpToken) = SelectSeq(OrigArgs, IsHelpToken)
             /\ SubSeq(argv, 2, argc) = SelectSeq(OrigArgs, IsUnrecognized)
             /\ \A k \in 1..Len(OrigArgs) : IsHelpToken(OrigArgs[k]) => IsUnrecognized(OrigArgs[k]))
    /\ [][(ppc = "loop" /\ ~argcNull /\ scan < argc /\ IsHelpToken(argv[scan + 1])) =>
              /\ helpCount' = helpCount + 1
              /\ FLAGS' = FLAGS /\ argv' = argv /\ argc' = argc
              /\ scan' = scan + 1]_vars

\* --help twice around a recognized flag: the usage was printed twice, the
\* flag was removed and stored, both --help are left in order
C14_Witness ==
    /\ ppc = "done" /\ ~argcNull /\ helpCount = 2
    /\ argvOrig = <<ProgName, Flag("help"), FlagEq("threads", <<"8">>), Flag("help")>>
    /\ argc = 3 /\ argv[2] = Flag("help") /\ argv[3] = Flag("help") /\ FLAGS.threads = 8

\* the arguments parse_local removes
RemovedCount == Cardinality({k \in 1..Len(OrigArgs) : Recognized(OrigArgs[k])})

\* C20: parse_local returns for every argument list, each loop iteration
\* either removing one argument (argc decreases, the scan index stays) or
\* advancing the scan index; argv[0] is never examined and never changes;
\* after the call argc is the original count minus the number of removed
\* arguments and never below 1; with a null argc pointer argv, argc and the
\* flags stay as they were.
C20_ParseTerminates ==
    /\ <>(ppc = "done")
    /\ [][(ppc = "loop" /\ ppc' = "loop") =>
              \/ argc' = argc - 1 /\ scan' = scan
              \/ argc' = argc /\ scan' = scan + 1]_vars
    /\ [](ppc = "loop" => scan >= 1 /\ scan <= argc)
    /\ [](argv[1] = argvOrig[1] /\ argc >= 1 /\ argc <= Len(argvOrig))
    /\ []((ppc = "done" /\ ~argcNull) =>
             /\ argc = Len(argvOrig) - RemovedCount
             /\ \A f \in FlagNames :
                   (\A k \in 1..Len(OrigArgs) : ~ParseFlag(OrigArgs[k], f).ok) =>
                       FLAGS[f] = FlagDefaults[f])
    /\ [](argcNull =>
             /\ argv = argvOrig /\ argc = Len(argvOrig)
             /\ FLAGS = FlagDefaults /\ helpCount = 0)

\* argv[0] spells --no_hw and every argument is a recognized flag: all three
\* were removed, argv[0] stayed and no_hw kept its default
C20_Witness ==
    /\ ppc = "done" /\ ~argcNull
    /\ argvOrig = <<Flag("no_hw"), FlagEq("threads", <<"8">>), FlagEq("block_size", <<"4", "K">>),
                    FlagEq("threads", <<"-", "4">>)>>
    /\ argc = 1 /\ argv[1] = Flag("no_hw") /\ ~FLAGS.no_hw /\ FLAGS.threads = -4

-----------------------------------------------------------------------------
(* The derived accessors (lines 265-327) *)

\* enum class mem_loc_e, declared in a header: the enumerators in the order
\* the specification lists them
mem_loc_e == [cache |-> 0, llc |-> 1, ram |-> 2, pmem |-> 3, cc_ram |-> 4, cc_pmem |-> 5]

\* str.size() > n && str.find(suffix, str.size() - n) == str.size() - n, for
\* a suffix of n characters
FindsSuffix(str, suffix) ==
    /\ Len(str) > Len(suffix)
    /\ SubSeq(str, Len(str) - Len(suffix) + 1, Len(str)) = suffix

\* the multiplier chosen at lines 273-277 for the upper-cased text
BlockMult(str) ==
    IF FindsSuffix(str, <<"K", "B">>) \/ FindsSuffix(str, <<"K">>) THEN 1024
    ELSE IF FindsSuffix(str, <<"M", "B">>) \/ FindsSuffix(str, <<"M">>) THEN 1024 * 1024
    ELSE 1

\* the test that throws "invalid block size format" (line 280)
BlockSizeInvalid(n, str) == n = 0 /\ str # <<"0">>

\* a faulty variant: the text is compared as typed
InMemKey_NoFold(s) == s

\* the text get_in_mem compares with its literals (line 293)
InMemKey(s) == ToLowerStr(s)

\* the literals of get_out_mem as the source spells them (lines 319, 321):
\* "c" + Cyrillic es + "_ram", and Cyrillic es twice + "_pmem"
OutLitCcRam  == <<"c", "D1", "81", "_", "r", "a", "m">>
OutLitCcPmem == <<"D1", "81", "D1", "81", "_", "p", "m", "e", "m">>

Returned(f, v, first) == [fn |-> f, kind |-> "value", val |-> v, first |-> first]
Threw(f, first)       == [fn |-> f, kind |-> "raise", val |-> 0, first |-> first]

otherThanAcc == <<sysVars, devices, devVars, cmdVars, FLAGS, regVars, mainVars>>

\* get_block_size() (lines 265-285)
GetBlockSize ==
    /\ IF block_size < 0
       THEN LET str  == ToUpperStr(FLAGS.block_size)
                mult == BlockMult(str)
                n    == atoi(str)
            IN  IF BlockSizeInvalid(n, str)
                THEN \* the static already holds atoi's result when the throw happens
                     /\ block_size' = n
                     /\ accRes' = Threw("block_size", accFirst["block_size"])
                ELSE IF MulFits(n, mult)
                THEN /\ block_size' = n * mult
                     /\ accRes' = Returned("block_size", n * mult, accFirst["block_size"])
                ELSE \* signed overflow is undefined: the build wraps or traps
                     \/ /\ block_size' = MulW(n, mult)
                        /\ accRes' = Returned("block_size", MulW(n, mult), accFirst["block_size"])
                     \/ /\ block_size' = n
                        /\ accRes' = [fn |-> "block_size", kind |-> "trap", val |-> 0,
                                      first |-> accFirst["block_size"]]
       ELSE /\ accRes' = Returned("block_size", block_size, accFirst["block_size"])
            /\ UNCHANGED block_size
    /\ accFirst' = [accFirst EXCEPT !["block_size"] = FALSE]
    /\ UNCHANGED <<in_mem, out_mem>>
    /\ UNCHANGED otherThanAcc

\* get_in_mem() (lines 287-306)
GetInMem ==
    /\ IF in_mem < 0
       THEN LET str == InMemKey(FLAGS.in_mem)
                m   == IF str = <<"c", "a", "c", "h", "e">> THEN mem_loc_e.cache
                       ELSE IF str = <<"l", "l", "c">> THEN mem_loc_e.llc
                       ELSE IF str = <<"r", "a", "m">> THEN mem_loc_e.ram
                       ELSE IF str = <<"p", "m", "e", "m">> THEN mem_loc_e.pmem
                       ELSE -1
            IN  IF m >= 0
                THEN /\ in_mem' = m
                     /\ accRes' = Returned("in_mem", m, accFirst["in_mem"])
                ELSE /\ accRes' = Threw("in_mem", accFirst["in_mem"])
                     /\ UNCHANGED in_mem
       ELSE /\ accRes' = Returned("in_mem", in_mem, accFirst["in_mem"])
            /\ UNCHANGED in_mem
    /\ accFirst' = [accFirst EXCEPT !["in_mem"] = FALSE]
    /\ UNCHANGED <<block_size, out_mem>>
    /\ UNCHANGED otherThanAcc

\* get_out_mem() (lines 308-327)
GetOutMem ==
    /\ IF out_mem < 0
       THEN LET str == ToLowerStr(FLAGS.out_mem)   \* line 314
                m   == IF str = <<"r", "a", "m">> THEN mem_loc_e.ram
                       ELSE IF str = <<"p", "m", "e", "m">> THEN mem_loc_e.pmem
                       ELSE IF str = OutLitCcRam THEN mem_loc_e.cc_ram
                       ELSE IF str = OutLitCcPmem THEN mem_loc_e.cc_pmem
                       ELSE -1
            IN  IF m >= 0
                THEN /\ out_mem' = m
                     /\ accRes' = Returned("out_mem", m, accFirst["out_mem"])
                ELSE /\ accRes' = Threw("out_mem", accFirst["out_mem"])
                     /\ UNCHANGED out_mem
       ELSE /\ accRes' = Returned("out_mem", out_mem, accFirst["out_mem"])
            /\ UNCHANGED out_mem
    /\ accFirst' = [accFirst EXCEPT !["out_mem"] = FALSE]
    /\ UNCHANGED <<block_size, in_mem>>
    /\ UNCHANGED otherThanAcc

\* the texts a user can type, in every letter case
AnyCase(name) == {s \in [1..Len(name) -> {name[k] : k \in 1..Len(name)}
                                          \cup {toupper(name[k]) : k \in 1..Len(name)}] :
                     \A k \in 1..Len(name) : s[k] \in {name[k], toupper(name[k])}}

MemNames == [cache |-> <<"c", "a", "c", "h", "e">>, llc |-> <<"l", "l", "c">>,
             ram |-> <<"r", "a", "m">>, pmem |-> <<"p", "m", "e", "m">>,
             cc_ram |-> <<"c", "c", "_", "r", "a", "m">>,
             cc_pmem |-> <<"c", "c", "_", "p", "m", "e", "m">>]

MemStrings ==
    UNION {AnyCase(MemNames[n]) : n \in {"llc", "ram", "pmem", "cc_ram"}}
    \cup {MemNames.cache, ToUpperStr(MemNames.cache), MemNames.cc_pmem,
          ToUpperStr(MemNames.cc_pmem), <<"C", "c", "_", "P", "m", "e", "m">>}
    \cup {Str0, <<"d", "i", "s", "k">>, <<"r", "a", "m", "s">>, <<"r", "a">>,
          FlagDefaults.out_mem}

BlockStrings ==
    SeqsUpTo({"0", "2", "4", "K", "k", "M", "B", "-", "a"}, MaxBlockLen)
    \cup {<<"-", "1">>, <<"a", "b", "c">>, <<"2", "m", "b">>, <<"1", "0", "2", "4">>,
          <<"\n", "4">>, <<"-", "2", "0", "4", "8", "M">>}

\* the flag store after the command line set one of the three flags
InitAcc ==
    /\ \/ \E s \in BlockStrings : FLAGS = [FlagDefaults EXCEPT !.block_size = s]
       \/ \E s \in MemStrings : FLAGS = [FlagDefaults EXCEPT !.in_mem = s]
       \/ \E s \in MemStrings : FLAGS = [FlagDefaults EXCEPT !.out_mem = s]
    /\ IdleAcc
    /\ InitSysStatics /\ callsLeft = [t \in Threads |-> 0] /\ file = <<>>
    /\ devices = <<>>
    /\ IdleDev /\ IdleCmd /\ IdleReg /\ IdleMain

NextAcc == GetBlockSize \/ GetInMem \/ GetOutMem

SpecAcc == InitAcc /\ [][NextAcc]_vars

\* s is name written in some letter case (name is in lower case)
SameAnyCase(s, name) ==
    /\ Len(s) = Len(name)
    /\ \A k \in 1..Len(name) : s[k] \in {name[k], toupper(name[k])}

\* the outcome a memory-placement accessor must have on its first access for
\* the flag text s: the enumerator of the name s spells among names, the
\* enumerator dflt when s is the flag's default, and the error otherwise
MemOutcomeIs(res, s, names, dflt) ==
    IF \E n \in names : SameAnyCase(s, MemNames[n])
    THEN res.kind = "value" /\ \E n \in names : SameAnyCase(s, MemNames[n]) /\ res.val = mem_loc_e[n]
    ELSE IF s = dflt.text
    THEN res.kind = "value" /\ res.val = dflt.val
    ELSE res.kind = "raise"

\* C4: on its first access get_out_mem returns ram, pmem, cc_ram, cc_pmem for
\* the flag texts "ram", "pmem", "cc_ram", "cc_pmem" in any letter case,
\* cc_ram for the default, and raises for every other text.
C4_OutMemTotal ==
    (accRes.fn = "out_mem" /\ accRes.first) =>
        MemOutcomeIs(accRes, FLAGS.out_mem, {"ram", "pmem", "cc_ram", "cc_pmem"},
                     [text |-> FlagDefaults.out_mem, val |-> mem_loc_e.cc_ram])

\* C5: on its first access get_in_mem returns the enumerator for the flag
\* texts "cache", "llc", "ram", "pmem" in any letter case, llc for the
\* default, and raises for every other text.
C5_InMemTotal ==
    (accRes.fn = "in_mem" /\ accRes.first) =>
        MemOutcomeIs(accRes, FLAGS.in_mem, {"cache", "llc", "ram", "pmem"},
                     [text |-> FlagDefaults.in_mem, val |-> mem_loc_e.llc])

\* get_in_mem was called with the flag at "PMEM", "cc_ram" and the default
C5_Witness ==
    /\ accRes.fn = "in_mem" /\ accRes.first
    /\ \/ FLAGS.in_mem = <<"P", "m", "E", "m">> /\ accRes.val = mem_loc_e.pmem
       \/ FLAGS.in_mem = MemNames.cc_ram /\ accRes.kind = "raise"

\* the suffixes of a block size and their multipliers
BlockSuffixes == {<<>>, <<"K">>, <<"K", "B">>, <<"M">>, <<"M", "B">>}
SuffixMult(u) == IF u = <<>> THEN 1
                 ELSE IF u[1] = "K" THEN 1024 ELSE 1048576

\* the number that a short run of decimal digits spells, continuing from acc
RECURSIVE DigitsFrom(_, _, _, _)
DigitsFrom(s, k, acc, base) ==
    IF k > Len(s) \/ ~IsDigit(s[k]) THEN acc
    ELSE DigitsFrom(s, k + 1, acc * base + DigitVal(s[k]), base)

\* s is a decimal number of k digits followed by one of the suffixes
IsNumberWithSuffix(s, k) ==
    /\ k >= 1 /\ k <= Len(s)
    /\ \A j \in 1..k : IsDigit(s[j])
    /\ ToUpperStr(SubSeq(s, k + 1, Len(s))) \in BlockSuffixes

\* C6: on its first access get_block_size returns n times the suffix's
\* multiplier for a flag text made of a decimal number n >= 0 and a suffix
\* among "", K, KB, M, MB in any letter case, and a negative value for the
\* default "-1".
C6_BlockSizeValue ==
    (accRes.fn = "block_size" /\ accRes.first) =>
        /\ \A k \in 1..Len(FLAGS.block_size) :
              IsNumberWithSuffix(FLAGS.block_size, k) =>
                  /\ accRes.kind = "value"
                  /\ accRes.val = DigitsFrom(SubSeq(FLAGS.block_size, 1, k), 1, 0, 10)
                                  * SuffixMult(ToUpperStr(SubSeq(FLAGS.block_size, k + 1,
                                                                 Len(FLAGS.block_size))))
        /\ FLAGS.block_size = <<"-", "1">> => accRes.kind = "value" /\ accRes.val < 0

\* s does not start with a number, white space apart
NonNumeric(s) ==
    LET w == SpaceRun(s, 1)
    IN  ~ \/ Len(s) >= w + 1 /\ IsDigit(s[w + 1])
          \/ Len(s) >= w + 2 /\ s[w + 1] \in {"-", "+"} /\ IsDigit(s[w + 2])

\* C7: every call of get_block_size made while the flag holds a non-numeric
\* text raises, the first one and every later one.
C7_BlockSizeRaises ==
    (accRes.fn = "block_size" /\ NonNumeric(FLAGS.block_size)) => accRes.kind = "raise"

-----------------------------------------------------------------------------
(* The accessors called again and again while the flags are written *)

\* texts stored in the three string flags between calls
CacheBlockStrings == {<<"-", "1">>, <<"4", "K">>, <<"2">>}
CacheMemStrings   == {<<"r", "a", "m">>, <<"P", "M", "E", "M">>}

\* a text is stored in FLAGS_block_size, FLAGS_in_mem or FLAGS_out_mem, as
\* benchmark::ParseStringFlag does for parse_local (lines 241, 248, 249); the
\* statics of the accessors are not touched
StoreStringFlag ==
    /\ \/ \E v \in CacheBlockStrings : FLAGS' = [FLAGS EXCEPT !.block_size = v]
       \/ \E v \in CacheMemStrings : FLAGS' = [FLAGS EXCEPT !.in_mem = v]
       \/ \E v \in CacheMemStrings : FLAGS' = [FLAGS EXCEPT !.out_mem = v]
    /\ UNCHANGED accVars
    /\ UNCHANGED <<sysVars, devices, devVars, cmdVars, regVars, mainVars>>

InitCache ==
    /\ FLAGS = FlagDefaults
    /\ IdleAcc
    /\ InitSysStatics /\ callsLeft = [t \in Threads |-> 0] /\ file = <<>>
    /\ devices = <<>>
    /\ IdleDev /\ IdleCmd /\ IdleReg /\ IdleMain

NextCache == GetBlockSize \/ GetInMem \/ GetOutMem \/ StoreStringFlag

SpecCache == InitCache /\ [][NextCache]_vars

\* C19: once a call of an accessor has returned a value, the next call of
\* that accessor returns the same value, whatever was stored in the flag in
\* between and whatever the value is.
C19_AccessorsCache ==
    [][(accRes.kind = "value" /\ accRes'.fn = accRes.fn) =>
          (accRes'.kind = "value" /\ accRes'.val = accRes.val)]_vars

-----------------------------------------------------------------------------
(* The registry and its drain (lines 28-32, 366-368) *)

\* the callbacks that translation units register during static initialisation
Callbacks == {"cbA", "cbB", "cbC"}

\* a faulty variant: every other entry is skipped
DrainAdvance_Skip(k) == k + 2

\* the iterator after ++ in for(auto &reg : registry)
DrainAdvance(k) == k + 1

\* auto &registry = get_registry(); the range-for starts at begin()
DrainBeginBody ==
    /\ drainIdx = 0
    /\ drainIdx' = 1
    /\ UNCHANGED <<registry, invoked, drains>>

\* one test of the range-for: reg() for the current entry, or the loop's end
DrainStepBody ==
    /\ drainIdx >= 1
    /\ IF drainIdx <= Len(registry)
       THEN /\ invoked' = Append(invoked, registry[drainIdx])
            /\ drainIdx' = DrainAdvance(drainIdx)
            /\ UNCHANGED drains
       ELSE /\ drainIdx' = 0
            /\ drains' = drains + 1
            /\ UNCHANGED invoked
    /\ UNCHANGED registry

otherThanReg == <<sysVars, devices, devVars, cmdVars, FLAGS, accVars, mainVars>>

DrainBegin == drains < MaxDrains /\ DrainBeginBody /\ UNCHANGED otherThanReg
DrainStep  == DrainStepBody /\ UNCHANGED otherThanReg

InitDrain ==
    /\ registry \in SeqsUpTo(Callbacks, MaxCallbacks)
    /\ drainIdx = 0 /\ invoked = <<>> /\ drains = 0
    /\ InitSysStatics /\ callsLeft = [t \in Threads |-> 0] /\ file = <<>>
    /\ devices = <<>> /\ FLAGS = FlagDefaults
    /\ IdleDev /\ IdleCmd /\ IdleAcc /\ IdleMain

NextDrain == DrainBegin \/ DrainStep

SpecDrain == InitDrain /\ [][NextDrain]_vars

\* the sequence s written n times
RECURSIVE Repeat(_, _)
Repeat(s, n) == IF n = 0 THEN <<>> ELSE s \o Repeat(s, n - 1)

\* C9: after d drains every registered callback has been invoked d times, in
\* registration order within each drain; a drain in progress has invoked the
\* entries before its position once more; no drain changes the registry.
C9_DrainInOrder ==
    /\ [](/\ drainIdx <= Len(registry) + 1
           /\ invoked = Repeat(registry, drains)
                         \o (IF drainIdx >= 1 THEN SubSeq(registry, 1, drainIdx - 1) ELSE <<>>))
    /\ [][registry' = registry]_vars

\* three callbacks, two of them different, drained twice
C9_Witness ==
    /\ registry = <<"cbA", "cbB", "cbA">> /\ drains = 2 /\ drainIdx = 0
    /\ invoked = <<"cbA", "cbB", "cbA", "cbA", "cbB", "cbA">>

-----------------------------------------------------------------------------
(* init_hw (lines 36-70) and main (lines 356-372) *)

\* the five library calls of init_hw, in order
HwSteps == <<"qpl_get_job_size", "qpl_init_job", "qpl_submit_job", "qpl_wait_job",
             "qpl_fini_job">>

(***************************************************************************)
(* benchmark::Initialize and benchmark::ReportUnrecognizedArguments belong  *)
(* to the Google Benchmark library, which main calls (lines 359-360).  They *)
(* are written here as release 1.6 of the library has them (the release     *)
(* that brought benchmark::Shutdown, line 370): ParseCommandLineFlags tries *)
(* its flags on every argument, removes the ones it takes, prints its usage *)
(* and calls exit(0) on a --help argument, and does the same after the scan *)
(* when an output format is none of console, json and csv or the colour     *)
(* setting is empty.                                                        *)
(***************************************************************************)

\* the flags of ParseCommandLineFlags, by the parser tried on each
FrameworkBoolFlags   == {"benchmark_list_tests", "benchmark_enable_random_interleaving",
                         "benchmark_report_aggregates_only",
                         "benchmark_display_aggregates_only", "benchmark_counters_tabular"}
FrameworkStringFlags == {"benchmark_filter", "benchmark_format", "benchmark_out",
                         "benchmark_out_format", "benchmark_color", "color_print",
                         "benchmark_perf_counters"}
FrameworkInt32Flags  == {"benchmark_repetitions", "v"}
FrameworkDoubleFlags == {"benchmark_min_time"}
FrameworkKeyValFlags == {"benchmark_context"}
FrameworkFlagNames   == FrameworkBoolFlags \cup FrameworkStringFlags \cup FrameworkInt32Flags
                            \cup FrameworkDoubleFlags \cup FrameworkKeyValFlags

\* ParseKeyValueFlag on the text after '=': every part between commas must
\* hold exactly one '=' (an empty text has no parts)
KeyValueOk(v) ==
    LET cuts == {0, Len(v) + 1} \cup {k \in 1..Len(v) : v[k] = ","}
    IN  Len(v) = 0
        \/ \A a, b \in cuts :
              (a < b /\ \A c \in cuts : ~(a < c /\ c < b)) =>
                  Cardinality({k \in (a + 1)..(b - 1) : v[k] = "="}) = 1

\* the || chain of ParseCommandLineFlags on one argument: whether one of the
\* library's parsers returns true, so that the argument is removed
FrameworkTakes(tok) ==
    /\ tok.dash /\ tok.name \in FrameworkFlagNames
    /\ IF tok.name \in FrameworkBoolFlags THEN ParseFlagValue(tok, tok.name, TRUE).found
       ELSE /\ ParseFlagValue(tok, tok.name, FALSE).found
            /\ tok.name \in FrameworkInt32Flags => ParseInt32(tok.val).ok
            /\ tok.name \in FrameworkDoubleFlags => ParseDouble(tok.val).ok
            /\ tok.name \in FrameworkKeyValFlags => KeyValueOk(tok.val)

\* the value a string flag of the library has after the scan of args: the
\* value of the last argument ParseStringFlag takes for one of the names,
\* else the default
FrameworkFlagValue(args, names, default) ==
    LET taken == {k \in 1..Len(args) :
                     /\ args[k].name \in names
                     /\ ParseFlagValue(args[k], args[k].name, FALSE).found}
    IN  IF taken = {} THEN default
        ELSE args[CHOOSE k \in taken : \A j \in taken : j <= k].val

FrameworkFormats == {<<"c", "o", "n", "s", "o", "l", "e">>, <<"j", "s", "o", "n">>,
                     <<"c", "s", "v">>}

\* whether ParseCommandLineFlags ends in PrintUsageAndExit for the arguments
\* args after argv[0]: a --help among them, or after the scan a format that
\* is none of the three, or an empty colour setting
FrameworkUsageExit(args) ==
    \/ \E k \in 1..Len(args) : IsFlag(args[k], "help")
    \/ FrameworkFlagValue(args, {"benchmark_format"}, <<"c", "o", "n", "s", "o", "l", "e">>)
          \notin FrameworkFormats
    \/ FrameworkFlagValue(args, {"benchmark_out_format"}, <<"j", "s", "o", "n">>)
          \notin FrameworkFormats
    \/ FrameworkFlagValue(args, {"benchmark_color", "color_print"}, <<"a", "u", "t", "o">>)
          = <<>>

\* main's thread
MainThread == 1

\* a faulty variant: a non-success status is downgraded and init_hw goes on
OnHwStatus_Downgraded(status) == "hw"

\* if (status != QPL_STS_OK) throw std::runtime_error(...) (lines 41-42, 48-49,
\* 58-59, 62-63, 66-67): where control is after a library call of init_hw
\* returned status; nothing catches the exception, so the process is terminated
OnHwStatus(status) == IF status # "ok" THEN "terminated" ELSE "hw"

\* a faulty variant: init_hw is never called
AfterSysInfo_NoHandshake == "drain"

\* a faulty variant: init_hw is called whatever no_hw says
AfterSysInfo_AlwaysHandshake == "hw"

\* where main goes after get_sys_info returned (lines 363-364)
AfterSysInfo == IF ~FLAGS.no_hw THEN "hw" ELSE "drain"

\* ::benchmark::ReportUnrecognizedArguments(argc, argv) (line 360): every
\* argv[1..argc-1] is reported; the result is whether there was one
ReportUnrecognizedArguments(n) == n > 1

\* benchmark::Initialize(&argc, argv) (line 359), after parse_local returned:
\* the library removes its own flags, or prints its usage and calls exit(0)
MainInitialize ==
    /\ mainpc = "parse" /\ ppc = "done"
    /\ events' = Append(events, "handed")
    /\ IF FrameworkUsageExit(SubSeq(argv, 2, argc))
       THEN /\ mainpc' = "exit_called" /\ exitCode' = "0"
            /\ UNCHANGED <<argv, argc>>
       ELSE /\ LET keep == SelectSeq(SubSeq(argv, 2, argc), LAMBDA a : ~FrameworkTakes(a))
               IN  /\ argv' = <<argv[1]>> \o keep \o SubSeq(argv, 2 + Len(keep), Len(argv))
                   /\ argc' = 1 + Len(keep)
            /\ mainpc' = "report"
            /\ UNCHANGED exitCode
    /\ UNCHANGED <<argcNull, scan, ppc, helpCount, argvOrig, FLAGS, hwStatus>>
    /\ UNCHANGED <<sysVars, devices, devVars, accVars, regVars>>

\* if (ReportUnrecognizedArguments(argc, argv)) return 1 (line 360): the
\* library reports every argument still present; then get_sys_info is called
MainReport ==
    /\ mainpc = "report"
    /\ IF ReportUnrecognizedArguments(argc)
       THEN /\ mainpc' = "returned" /\ exitCode' = "1"
            /\ UNCHANGED callsLeft
       ELSE /\ mainpc' = "sysinfo"
            /\ callsLeft' = [callsLeft EXCEPT ![MainThread] = 1]
            /\ UNCHANGED exitCode
    /\ UNCHANGED <<guard, is_setup, info, pc, pos, sockIdx, ret, nret, builds, lockAcq, raised, file>>
    /\ UNCHANGED <<events, hwStatus>>
    /\ UNCHANGED <<devices, devVars, cmdVars, FLAGS, accVars, regVars>>

\* get_sys_info returned to main (line 361)
MainSysInfoReturned ==
    /\ mainpc = "sysinfo"
    /\ pc[MainThread] = "idle" /\ nret[MainThread] = 1
    /\ mainpc' = AfterSysInfo
    /\ UNCHANGED <<events, hwStatus, exitCode>>
    /\ UNCHANGED <<sysVars, devices, devVars, cmdVars, FLAGS, accVars, regVars>>

\* get_sys_info threw: nothing catches it and the process is terminated
MainSysInfoThrew ==
    /\ mainpc = "sysinfo"
    /\ pc[MainThread] = "idle" /\ raised[MainThread] > 0
    /\ mainpc' = "terminated"
    /\ UNCHANGED <<events, hwStatus, exitCode>>
    /\ UNCHANGED <<sysVars, devices, devVars, cmdVars, FLAGS, accVars, regVars>>

\* the next library call of init_hw returns QPL_STS_OK
HwStepOk ==
    /\ mainpc = "hw"
    /\ Len(hwStatus) < Len(HwSteps)
    /\ hwStatus' = Append(hwStatus, "ok")
    /\ mainpc' = OnHwStatus("ok")
    /\ UNCHANGED <<events, exitCode>>
    /\ UNCHANGED <<sysVars, devices, devVars, cmdVars, FLAGS, accVars, regVars>>

\* the next library call of init_hw returns another status: init_hw throws,
\* nothing catches it and the process is terminated
HwStepFail ==
    /\ mainpc = "hw"
    /\ Len(hwStatus) < Len(HwSteps)
    /\ hwStatus' = Append(hwStatus, "fail")
    /\ mainpc' = OnHwStatus("fail")
    /\ UNCHANGED <<events, exitCode>>
    /\ UNCHANGED <<sysVars, devices, devVars, cmdVars, FLAGS, accVars, regVars>>

\* init_hw returns true (line 69)
HwReturn ==
    /\ mainpc = "hw"
    /\ Len(hwStatus) = Len(HwSteps)
    /\ mainpc' = "drain"
    /\ UNCHANGED <<events, hwStatus, exitCode>>
    /\ UNCHANGED <<sysVars, devices, devVars, cmdVars, FLAGS, accVars, regVars>>

\* auto &registry = get_registry() (line 366)
MainDrainBegin ==
    /\ mainpc = "drain" /\ drains = 0
    /\ DrainBeginBody
    /\ UNCHANGED mainVars
    /\ UNCHANGED <<sysVars, devices, devVars, cmdVars, FLAGS, accVars>>

\* the loop over the registry (lines 367-368)
MainDrainStep ==
    /\ mainpc = "drain"
    /\ DrainStepBody
    /\ mainpc' = IF drainIdx <= Len(registry) THEN "drain" ELSE "run"
    /\ UNCHANGED <<events, hwStatus, exitCode>>
    /\ UNCHANGED <<sysVars, devices, devVars, cmdVars, FLAGS, accVars>>

\* ::benchmark::RunSpecifiedBenchmarks() (line 369)
MainRun ==
    /\ mainpc = "run"
    /\ events' = Append(events, "run")
    /\ mainpc' = "shutdown"
    /\ UNCHANGED <<hwStatus, exitCode>>
    /\ UNCHANGED <<sysVars, devices, devVars, cmdVars, FLAGS, accVars, regVars>>

\* ::benchmark::Shutdown(); return 0 (lines 370-371)
MainShutdown ==
    /\ mainpc = "shutdown"
    /\ events' = Append(events, "shutdown")
    /\ mainpc' = "returned" /\ exitCode' = "0"
    /\ UNCHANGED <<hwStatus>>
    /\ UNCHANGED <<sysVars, devices, devVars, cmdVars, FLAGS, accVars, regVars>>

MainArgPool == {Flag("no_hw"), FlagEq("block_size", <<"4", "K">>), Flag("foo"),
                Flag("help"), FlagEq("benchmark_filter", <<"x">>),
                FlagEq("benchmark_format", <<"x", "m", "l">>),
                FlagEq("benchmark_color", <<>>)}
MainCallbacks == {"cbA", "cbB"}
MainFiles   == {<<>>, <<Line("processor", <<"0">>), Line("physical id", <<"0">>)>>}

\* the command line prog --block_size=4K --no_hw --foo
EndToEndArgs == <<FlagEq("block_size", <<"4", "K">>), Flag("no_hw"), Flag("foo")>>

MainArgLists == SeqsUpTo(MainArgPool, MaxMainArgs) \cup {EndToEndArgs}

InitMain ==
    /\ \E args \in MainArgLists :
          /\ argv = <<ProgName>> \o args
          /\ argvOrig = <<ProgName>> \o args
          /\ argc = 1 + Len(args)
    /\ argcNull = FALSE /\ scan = 0 /\ ppc = "idle" /\ helpCount = 0
    /\ FLAGS = FlagDefaults
    /\ registry \in SeqsUpTo(MainCallbacks, MaxCallbacks)
    /\ drainIdx = 0 /\ invoked = <<>> /\ drains = 0
    /\ InitSysStatics /\ callsLeft = [t \in Threads |-> 0]
    /\ file \in MainFiles
    /\ devices = <<0, UnknownNuma>>
    /\ mainpc = "parse" /\ events = <<>> /\ hwStatus = <<>> /\ exitCode = "none"
    /\ IdleDev /\ IdleAcc

NextMain ==
    \/ ParseEnter
    \/ ParseStep
    \/ MainInitialize
    \/ MainReport
    \/ SysCall(MainThread)
    \/ SysLock(MainThread)
    \/ SysCheck(MainThread)
    \/ SysOpenOk(MainThread)
    \/ SysOpenFail(MainThread)
    \/ SysReadLine(MainThread)
    \/ SysEnum(MainThread)
    \/ SysUnlock(MainThread)
    \/ SysReturn(MainThread)
    \/ MainSysInfoReturned
    \/ MainSysInfoThrew
    \/ HwStepOk
    \/ HwStepFail
    \/ HwReturn
    \/ MainDrainBegin
    \/ MainDrainStep
    \/ MainRun
    \/ MainShutdown

SpecMain == InitMain /\ [][NextMain]_vars

\* the stages of a run of main, read from the state
Spliced        == ppc = "done"
HandedOver     == \E k \in 1..Len(events) : events[k] = "handed"
SysInfoStarted == lockAcq[MainThread] > 0 \/ pc[MainThread] # "idle" \/ builds > 0
SysInfoBuilt   == is_setup /\ nret[MainThread] = 1
HandshakeBegun == Len(hwStatus) > 0
HandshakeDone  == Len(hwStatus) = Len(HwSteps) /\ \A k \in 1..Len(hwStatus) : hwStatus[k] = "ok"
                  /\ mainpc # "hw"
DrainBegun     == drainIdx > 0 \/ Len(invoked) > 0 \/ drains > 0
AllCallbacksReturned == drains = 1 /\ drainIdx = 0 /\ invoked = registry
LoopRun        == \E k \in 1..Len(events) : events[k] = "run"

\* C10: in a run of main every stage begins only after the stage before it
\* has completed (splice, hand-over, system info, handshake unless no_hw,
\* callbacks, measurement loop), no stage happens twice, and a run that
\* returns 0 from the end of main has gone through all of them.
C10_EntryOrder ==
    /\ HandedOver => Spliced
    /\ SysInfoStarted => HandedOver /\ mainpc \notin {"parse", "report"}
    /\ HandshakeBegun => SysInfoBuilt /\ ~FLAGS.no_hw
    /\ DrainBegun => SysInfoBuilt /\ (FLAGS.no_hw \/ HandshakeDone)
    /\ LoopRun => AllCallbacksReturned
    /\ builds <= 1 /\ nret[MainThread] <= 1 /\ Len(hwStatus) <= Len(HwSteps) /\ drains <= 1
    /\ Len(invoked) <= Len(registry)
    /\ events \in {<<>>, <<"handed">>, <<"handed", "run">>, <<"handed", "run", "shutdown">>}
    /\ (mainpc = "returned" /\ exitCode = "0") =>
          /\ events = <<"handed", "run", "shutdown">>
          /\ SysInfoBuilt /\ (FLAGS.no_hw \/ HandshakeDone) /\ AllCallbacksReturned

\* a run with the handshake and two callbacks reached the end of main
C10_Witness ==
    /\ mainpc = "returned" /\ exitCode = "0" /\ ~FLAGS.no_hw /\ HandshakeDone
    /\ Len(registry) = 2 /\ invoked = registry /\ LoopRun
    /\ info.cpu_sockets = 1 /\ info.total_devices = 2

\* the library calls init_hw has made so far, by name
HwCalled == [k \in 1..Len(hwStatus) |-> HwSteps[k]]
HwFailed == \E k \in 1..Len(hwStatus) : hwStatus[k] # "ok"

\* C11: init_hw makes its five library calls in the order size query, init,
\* submit, wait, finalize; a call that returns a non-success status is the
\* last one made, the process is terminated there, no callback is invoked and
\* the measurement loop does not run; the run goes on past init_hw only after
\* five successes.
C11_HandshakeFailFast ==
    /\ Len(hwStatus) <= Len(HwSteps)
    /\ HwCalled = SubSeq(HwSteps, 1, Len(hwStatus))
    /\ \A k \in 1..Len(hwStatus) : k < Len(hwStatus) => hwStatus[k] = "ok"
    /\ HwFailed =>
          /\ mainpc = "terminated" /\ exitCode = "none"
          /\ ~DrainBegun /\ invoked = <<>> /\ ~LoopRun
    /\ (HandshakeBegun /\ mainpc \in {"drain", "run", "shutdown", "returned"}) =>
          Len(hwStatus) = Len(HwSteps) /\ ~HwFailed

\* the wait step failed after three successes, with callbacks registered
C11_Witness ==
    /\ hwStatus = <<"ok", "ok", "ok", "fail">> /\ HwCalled[4] = "qpl_wait_job"
    /\ mainpc = "terminated" /\ Len(registry) = 2 /\ invoked = <<>>

\* C12: with no_hw true after the splice no library call of init_hw is ever
\* made, and main goes from get_sys_info straight to the drain and on to the
\* measurement loop; with no_hw false the first callback runs only after one
\* complete handshake.
C12_NoHwSkipsHandshake ==
    /\ []((Spliced /\ FLAGS.no_hw) => (hwStatus = <<>> /\ mainpc # "hw"))
    /\ []((FLAGS.no_hw /\ mainpc = "returned" /\ exitCode = "0") =>
              (AllCallbacksReturned /\ LoopRun))
    /\ []((~FLAGS.no_hw /\ DrainBegun) =>
              (Len(hwStatus) = Len(HwSteps) /\ ~HwFailed))
    /\ [][(mainpc = "sysinfo" /\ mainpc' # "sysinfo" /\ mainpc' # "terminated") =>
              (mainpc' = IF FLAGS.no_hw THEN "drain" ELSE "hw")]_vars
    /\ [][(mainpc = "drain" /\ mainpc' # "drain") => mainpc' = "run"]_vars

\* a run with --no_hw and two callbacks reached the end of main
C12_Witness ==
    /\ mainpc = "returned" /\ exitCode = "0" /\ FLAGS.no_hw /\ hwStatus = <<>>
    /\ Len(registry) = 2 /\ invoked = registry /\ LoopRun /\ is_setup

\* the arguments parse_local leaves for the benchmark library
LeftAfterSplice == SelectSeq(OrigArgs, IsUnrecognized)

\* the benchmark library neither takes the argument as one of its flags nor
\* handles it as a request for help
FrameworkRejects(tok) == ~FrameworkTakes(tok) /\ ~IsFlag(tok, "help")

AnyRejected == \E k \in 1..Len(LeftAfterSplice) : FrameworkRejects(LeftAfterSplice[k])
MainEnded   == mainpc \in {"exit_called", "returned", "terminated"}
NothingStarted == ~SysInfoStarted /\ ~HandshakeBegun /\ ~DrainBegun /\ ~LoopRun

\* the end-to-end scenario: prog --block_size=4K --no_hw --foo leaves
\* prog --foo, block size 4096 and no_hw true, and main returns 1
EndToEndScenario ==
    (argvOrig = <<ProgName>> \o EndToEndArgs /\ Spliced) =>
        /\ (mainpc = "parse" => SubSeq(argv, 1, argc) = <<ProgName, Flag("foo")>>)
        /\ FLAGS.no_hw
        /\ atoi(ToUpperStr(FLAGS.block_size)) * BlockMult(ToUpperStr(FLAGS.block_size)) = 4096
        /\ (MainEnded => mainpc = "returned" /\ exitCode = "1")

\* C13 as stated: whenever an argument that the benchmark library does not
\* recognize is left after the splice, the process ends with exit code 1 and
\* before get_sys_info, init_hw and the callbacks; when no such argument is
\* left the exit code is not 1; the end-to-end scenario ends with code 1.
C13_UnrecognizedExitsOne ==
    /\ AnyRejected =>
          /\ NothingStarted
          /\ MainEnded => (mainpc = "returned" /\ exitCode = "1")
    /\ ~AnyRejected => exitCode # "1"
    /\ EndToEndScenario

=============================================================================
